---- MODULE Spec2Model ----
(***************************************************************************)
(* Sorted-set routines of cupy/_logic/truth.py: in1d, isin, intersect1d,   *)
(* union1d.  Arrays are buffers of a heap seen through a shape; the        *)
(* caller owns buffers 1 and 2, every other buffer is allocated by a call. *)
(* Indices carried in results are 0-based, as in the source.               *)
(***************************************************************************)
EXTENDS Integers, Sequences, FiniteSets, TLC

MaxSize == 4
MaxVal == 2

VARIABLES heap, call, ret
vars == <<heap, call, ret>>

Values == 0..MaxVal
Bools == {TRUE, FALSE}

----------------------------------------------------------------------------
(* Sequence helpers (0-based access, slices, masks)                        *)

At(s, i) == s[i + 1]

RECURSIVE Prod(_)
Prod(sh) == IF sh = <<>> THEN 1 ELSE Head(sh) * Prod(Tail(sh))

RECURSIVE Compress(_, _)
\* s[mask]: the elements of s at the positions where mask is true
Compress(s, mask) ==
  IF s = <<>> THEN <<>>
  ELSE (IF Head(mask) THEN <<Head(s)>> ELSE <<>>) \o Compress(Tail(s), Tail(mask))

\* s[:-1]
ButLast(s) == IF s = <<>> THEN <<>> ELSE SubSeq(s, 1, Len(s) - 1)
\* s[1:]
From1(s) == IF s = <<>> THEN <<>> ELSE Tail(s)

----------------------------------------------------------------------------
(* Array primitives used by truth.py                                       *)

\* an array is a view [buf, shape] of a heap buffer
Size(arr) == Prod(arr.shape)
Data(h, arr) == h[arr.buf]

\* ndarray.ravel() of a C-contiguous array: a 1-D view of the same buffer
ravel(arr) == [buf |-> arr.buf, shape |-> <<Size(arr)>>]

\* cupy.concatenate((x, y)) of two flat data sequences: a fresh sequence
concatenate(x, y) == x \o y

RECURSIVE InsertStable(_, _, _)
\* insert index i into the index list p (sorted by key d), after equal keys
InsertStable(p, i, d) ==
  IF p = <<>> THEN <<i>>
  ELSE IF At(d, i) < At(d, Head(p)) THEN <<i>> \o p
       ELSE <<Head(p)>> \o InsertStable(Tail(p), i, d)

RECURSIVE ArgsortUpTo(_, _)
ArgsortUpTo(d, n) ==
  IF n = 0 THEN <<>> ELSE InsertStable(ArgsortUpTo(d, n - 1), n - 1, d)

\* cupy.argsort(d): the indices that sort d, with a stable sorting
argsort(d) == ArgsortUpTo(d, Len(d))

\* d[idx] for an index array that is in range
Gather(d, idx) == [k \in 1..Len(idx) |-> At(d, idx[k])]

\* cupy.sort(d): a sorted copy
sort(d) == Gather(d, argsort(d))

RECURSIVE BSearch(_, _, _, _, _)
\* binary search for the insertion point of v in s within [lo, hi)
BSearch(s, v, lo, hi, side) ==
  IF lo >= hi THEN lo
  ELSE LET mid == (lo + hi) \div 2
           goRight == IF side = "left" THEN At(s, mid) < v ELSE At(s, mid) <= v
       IN IF goRight THEN BSearch(s, v, mid + 1, hi, side)
          ELSE BSearch(s, v, lo, mid, side)

\* cupy.searchsorted(s, q, side)
searchsorted(s, q, side) == [k \in 1..Len(q) |-> BSearch(s, q[k], 0, Len(s), side)]

\* the mask of positions that start a run of equal values in sorted data
FirstOfRun(s) == [k \in 1..Len(s) |-> k = 1 \/ s[k] # s[k - 1]]

\* cupy.unique(d, return_index=True): sorted distinct values and the index of
\* the first occurrence of each in d
unique(d) ==
  LET perm == argsort(d)
      srt == Gather(d, perm)
      mask == FirstOfRun(srt)
  IN [values |-> Compress(srt, mask), index |-> Compress(perm, mask)]

\* fancy indexing d[idx] with bounds: negative indices count from the end
InRange(d, i) == -Len(d) <= i /\ i < Len(d)
Take(d, idx) ==
  [k \in 1..Len(idx) |->
     IF ~InRange(d, idx[k]) THEN -1
     ELSE IF idx[k] < 0 THEN At(d, idx[k] + Len(d)) ELSE At(d, idx[k])]
TakeFaults(d, idx) == \E k \in 1..Len(idx) : ~InRange(d, idx[k])

-------------------------------------------------------------------------------------------------------------------------------------------------
(* in1d / isin                                                             *)

NoRet == [op |-> "none"]

\* a fresh buffer holding d, appended to the heap
Alloc(h, d) == [heap |-> Append(h, d),
                arr |-> [buf |-> Len(h) + 1, shape |-> <<Len(d)>>]]

\* ndarray.sort(): sorts the buffer the array views, in place
ndsort(h, arr) == [h EXCEPT ![arr.buf] = sort(h[arr.buf])]

\* variant: only the query is tested for emptiness
EitherEmpty_FirstOnly(r1, r2) == Size(r1) = 0

\* truth.py 110: if ar1.size == 0 or ar2.size == 0
EitherEmpty(r1, r2) == Size(r1) = 0 \/ Size(r2) = 0

\* variant: zeros whatever invert says
ConstantResult_Zeros(r1, invert) == [k \in 1..Size(r1) |-> FALSE]

\* truth.py 111-114: cupy.ones(ar1.shape) if invert else cupy.zeros(ar1.shape)
ConstantResult(r1, invert) == [k \in 1..Size(r1) |-> invert]

\* variant: the reference is copied but not sorted
SortedRef_NoSort(h, r2) == Alloc(h, Data(h, r2))

\* truth.py 117: ar2 = cupy.sort(ar2), a sorted copy in a fresh buffer
SortedRef(h, r2) == Alloc(h, sort(Data(h, r2)))

\* truth.py 120: v1 == v2 if invert else v1 != v2
Compare(v1, v2, invert) ==
  [k \in 1..Len(v1) |-> IF invert THEN v1[k] = v2[k] ELSE v1[k] # v2[k]]

\* truth.py in1d: the returned boolean array, the primitives it invoked and
\* the heap it leaves
in1d(h, ar1, ar2, invert) ==
  LET r1 == ravel(ar1)
      r2 == ravel(ar2)
  IN IF EitherEmpty(r1, r2)
     THEN [data |-> ConstantResult(r1, invert), shape |-> r1.shape,
           prims |-> {}, heap |-> h, fault |-> FALSE]
     ELSE LET s == SortedRef(h, r2)
              v1 == searchsorted(Data(s.heap, s.arr), Data(s.heap, r1), "left")
              v2 == searchsorted(Data(s.heap, s.arr), Data(s.heap, r1), "right")
          IN [data |-> Compare(v1, v2, invert), shape |-> r1.shape,
              prims |-> {"sort", "searchsorted"}, heap |-> s.heap, fault |-> FALSE]

\* truth.py isin: in1d reshaped to element.shape; reshape faults when the
\* sizes differ
isin(h, element, test_elements, invert) ==
  LET r == in1d(h, element, test_elements, invert)
  IN [r EXCEPT !.shape = element.shape,
               !.fault = r.fault \/ Prod(element.shape) # Len(r.data)]

----------------------------------------------------------------------------
(* intersect1d / union1d                                                   *)

\* variant: the deduplication is skipped whatever assume_unique says
Dedup_Skip(h, arr1, arr2, assume_unique) ==
  [heap |-> h, arr1 |-> ravel(arr1), arr2 |-> ravel(arr2),
   ind1 |-> <<>>, ind2 |-> <<>>]

\* truth.py 156-165: the two arrays intersect1d works on and, when a
\* deduplication took place, the first-occurrence indices of their values
Dedup(h, arr1, arr2, assume_unique) ==
  IF ~assume_unique
  THEN LET u1 == unique(Data(h, ravel(arr1)))
           u2 == unique(Data(h, ravel(arr2)))
           n1 == Alloc(h, u1.values)
           n2 == Alloc(n1.heap, u2.values)
       IN [heap |-> n2.heap, arr1 |-> n1.arr, arr2 |-> n2.arr,
           ind1 |-> u1.index, ind2 |-> u2.index]
  ELSE [heap |-> h, arr1 |-> ravel(arr1), arr2 |-> ravel(arr2),
        ind1 |-> <<>>, ind2 |-> <<>>]

\* variant: an empty arr2 makes the concatenation return arr1 itself
ConcatAux_NoCopy(h, a1, a2) ==
  IF Size(a2) = 0 THEN [heap |-> h, arr |-> a1]
  ELSE Alloc(h, concatenate(Data(h, a1), Data(h, a2)))

\* truth.py 167: aux = cupy.concatenate((arr1, arr2)), a fresh buffer
ConcatAux(h, a1, a2) == Alloc(h, concatenate(Data(h, a1), Data(h, a2)))

\* variant: without indices the buffer is left unsorted
SortAux_NoSort(h, aux, return_indices) ==
  IF return_indices
  THEN LET perm == argsort(Data(h, aux))
       IN [heap |-> h, aux |-> Gather(Data(h, aux), perm), perm |-> perm]
  ELSE [heap |-> h, aux |-> Data(h, aux), perm |-> <<>>]

\* truth.py 168-172: argsort and gather when indices are wanted, else an
\* in-place sort of aux
SortAux(h, aux, return_indices) ==
  IF return_indices
  THEN LET perm == argsort(Data(h, aux))
       IN [heap |-> h, aux |-> Gather(Data(h, aux), perm), perm |-> perm]
  ELSE LET h2 == ndsort(h, aux)
       IN [heap |-> h2, aux |-> Data(h2, aux), perm |-> <<>>]

\* truth.py 174: mask = aux[1:] == aux[:-1]
AdjMask(aux) == [k \in 1..(Len(aux) - 1) |-> From1(aux)[k] = ButLast(aux)[k]]

\* variant: the arr1 positions are read from perm[1:]
Arr1Indices_FromSecond(perm, mask) == Compress(From1(perm), mask)

\* truth.py 178: aux_sort_indices[:-1][mask]
Arr1Indices(perm, mask) == Compress(ButLast(perm), mask)

\* variant: the offset arr1.size is not subtracted
Arr2Indices_NoOffset(perm, mask, n1) == Compress(From1(perm), mask)

\* truth.py 179: aux_sort_indices[1:][mask] - arr1.size
Arr2Indices(perm, mask, n1) ==
  LET sel == Compress(From1(perm), mask)
  IN [k \in 1..Len(sel) |-> sel[k] - n1]

\* variant: the positions are returned without mapping them back
MapBack_Skip(ind, idx, assume_unique) == idx

\* truth.py 180-182: map positions in the deduplicated arrays back through
\* ind1 / ind2 when a deduplication took place
MapBack(ind, idx, assume_unique) ==
  IF ~assume_unique THEN Take(ind, idx) ELSE idx

\* truth.py 175-186: the values, the indices and what the call leaves
Returned(d, cat, s, mask, i1, i2, assume_unique) ==
  [int1d |-> Compress(ButLast(s.aux), mask),
   arr1_indices |-> MapBack(d.ind1, i1, assume_unique),
   arr2_indices |-> MapBack(d.ind2, i2, assume_unique),
   fault |-> ~assume_unique /\ (TakeFaults(d.ind1, i1) \/ TakeFaults(d.ind2, i2)),
   cat |-> cat, aux |-> s.aux, perm |-> s.perm,
   n1 |-> Size(d.arr1), n2 |-> Size(d.arr2), pos1 |-> i1, pos2 |-> i2,
   heap |-> s.heap]

\* truth.py 177-179: the positions in arr1 and arr2, when indices are wanted
Selected(d, cat, s, mask, assume_unique, return_indices) ==
  Returned(d, cat, s, mask,
           IF return_indices THEN Arr1Indices(s.perm, mask) ELSE <<>>,
           IF return_indices THEN Arr2Indices(s.perm, mask, Size(d.arr1)) ELSE <<>>,
           assume_unique)

\* truth.py 168-174: sort the concatenated buffer, then compare neighbours
Sorted(d, c, s, assume_unique, return_indices) ==
  Selected(d, Data(c.heap, c.arr), s, AdjMask(s.aux), assume_unique, return_indices)

\* truth.py 167-172: concatenate, then sort
Concatenated(d, c, assume_unique, return_indices) ==
  Sorted(d, c, SortAux(c.heap, c.arr, return_indices), assume_unique, return_indices)

\* truth.py 156-167: deduplicate (or ravel), then concatenate
Deduplicated(d, assume_unique, return_indices) ==
  Concatenated(d, ConcatAux(d.heap, d.arr1, d.arr2), assume_unique, return_indices)

\* truth.py intersect1d
intersect1d(h, arr1, arr2, assume_unique, return_indices) ==
  Deduplicated(Dedup(h, arr1, arr2, assume_unique), assume_unique, return_indices)

\* variant: the concatenation is sorted but not deduplicated
union1d_NoUnique(h, arr1, arr2) ==
  sort(concatenate(Data(h, ravel(arr1)), Data(h, ravel(arr2))))

\* truth.py union1d: unique(concatenate((arr1, arr2), axis=None))
union1d(h, arr1, arr2) ==
  unique(concatenate(Data(h, ravel(arr1)), Data(h, ravel(arr2)))).values

-------
(* The caller: two arrays it owns, and one call after another              *)

RECURSIVE SeqsUpTo(_)
SeqsUpTo(n) ==
  IF n = 0 THEN {<<>>}
  ELSE SeqsUpTo(n - 1) \cup [1..n -> Values]

\* the shapes under which a buffer of n elements is passed
Shapes(n) == {<<n>>} \cup {sh \in {2} \X (0..n) : sh[1] * sh[2] = n}

\* what of the heap survives a call: the caller's two buffers
Owned(h) == SubSeq(h, 1, 2)

Arg(i, sh) == [buf |-> i, shape |-> sh]

\* the caller's two arrays hold at most MaxSize elements together
Init ==
  /\ \E n \in 0..MaxSize : heap \in [1..n -> Values] \X SeqsUpTo(MaxSize - n)
  /\ call = [op |-> "none"]
  /\ ret = NoRet

CallIn1d ==
  /\ call.op = "none"
  /\ \E sh1 \in Shapes(Len(heap[1])), sh2 \in Shapes(Len(heap[2])), invert \in Bools :
    LET r == in1d(heap, Arg(1, sh1), Arg(2, sh2), invert)
    IN /\ heap' = Owned(r.heap)
       /\ call' = [op |-> "in1d", shape1 |-> sh1, shape2 |-> sh2, invert |-> invert]
       /\ ret' = [data |-> r.data, shape |-> r.shape, prims |-> r.prims,
                  fault |-> r.fault]

CallIsin ==
  /\ call.op = "none"
  /\ \E sh1 \in Shapes(Len(heap[1])), sh2 \in Shapes(Len(heap[2])), invert \in Bools :
    LET r == isin(heap, Arg(1, sh1), Arg(2, sh2), invert)
    IN /\ heap' = Owned(r.heap)
       /\ call' = [op |-> "isin", shape1 |-> sh1, shape2 |-> sh2, invert |-> invert]
       /\ ret' = [data |-> r.data, shape |-> r.shape, prims |-> r.prims,
                  fault |-> r.fault]

CallIntersect1d ==
  /\ call.op = "none"
  /\ \E sh1 \in Shapes(Len(heap[1])), sh2 \in Shapes(Len(heap[2])),
     assume_unique \in Bools, return_indices \in Bools :
    LET r == intersect1d(heap, Arg(1, sh1), Arg(2, sh2), assume_unique, return_indices)
    IN /\ heap' = Owned(r.heap)
       /\ call' = [op |-> "intersect1d", shape1 |-> sh1, shape2 |-> sh2,
                   assume_unique |-> assume_unique, return_indices |-> return_indices]
       /\ ret' = [int1d |-> r.int1d, arr1_indices |-> r.arr1_indices,
                  arr2_indices |-> r.arr2_indices, fault |-> r.fault,
                  cat |-> r.cat, aux |-> r.aux, perm |-> r.perm,
                  n1 |-> r.n1, n2 |-> r.n2, pos1 |-> r.pos1, pos2 |-> r.pos2]

CallUnion1d ==
  /\ call.op = "none"
  /\ \E sh1 \in Shapes(Len(heap[1])), sh2 \in Shapes(Len(heap[2])) :
    /\ heap' = Owned(heap)
    /\ call' = [op |-> "union1d", shape1 |-> sh1, shape2 |-> sh2]
    /\ ret' = [values |-> union1d(heap, Arg(1, sh1), Arg(2, sh2))]

\* the caller drops the returned arrays and is ready for the next call
Discard ==
  /\ call.op # "none"
  /\ call' = [op |-> "none"]
  /\ ret' = NoRet
  /\ UNCHANGED heap

Next == CallIn1d \/ CallIsin \/ CallIntersect1d \/ CallUnion1d \/ Discard

Spec == Init /\ [][Next]_vars

----------------------------------------------------------------------------
(* Properties                                                              *)

Range(s) == {s[k] : k \in 1..Len(s)}
DupFree(s) == \A i, j \in 1..Len(s) : s[i] = s[j] => i = j
Ascending(s) == \A k \in 1..(Len(s) - 1) : s[k] < s[k + 1]
NonDecreasing(s) == \A k \in 1..(Len(s) - 1) : s[k] <= s[k + 1]
\* the 0-based index of the first occurrence of v in s
FirstIndex(s, v) == (CHOOSE k \in 1..Len(s) : s[k] = v /\ \A j \in 1..(k - 1) : s[j] # v) - 1

IsMember == call.op \in {"in1d", "isin"}
IsIntersect == call.op = "intersect1d"
ExpectedShape == IF call.op = "isin" THEN call.shape1 ELSE <<Len(heap[1])>>

\* C1: with invert=false, in1d returns one boolean per element of flattened
\* Q, isin the same data under Q's shape, and entry i is true exactly when
\* Q[i] occurs in R; so in1d(a, a) is all true
C1_Membership ==
  (IsMember /\ ~call.invert) =>
    /\ Len(ret.data) = Len(heap[1])
    /\ ret.shape = ExpectedShape
    /\ \A k \in 1..Len(heap[1]) : ret.data[k] <=> heap[1][k] \in Range(heap[2])
    /\ (heap[1] = heap[2] => \A k \in 1..Len(ret.data) : ret.data[k])

\* isin over a 2-D query whose reference holds duplicates, with a hit and a miss
C1_Witness ==
  /\ call.op = "isin" /\ ~call.invert /\ call.shape1 = <<2, 1>>
  /\ ~DupFree(heap[2])
  /\ ret.data = <<FALSE, TRUE>>

\* C2: with assume_unique=false, intersect1d returns exactly the values that
\* occur in both inputs, each once, ascending; empty when none is shared
C2_Intersection ==
  (IsIntersect /\ ~call.assume_unique) =>
    /\ Range(ret.int1d) = Range(heap[1]) \cap Range(heap[2])
    /\ Ascending(ret.int1d)

\* an unsorted input with duplicates that shares one of its values with b
C2_Witness ==
  /\ IsIntersect /\ ~call.assume_unique
  /\ ~DupFree(heap[1]) /\ ~NonDecreasing(heap[1])
  /\ Len(ret.int1d) = 1
  /\ Range(heap[1]) # Range(heap[2])

\* C2 (second half): disjoint inputs give an empty intersection
C2_DisjointWitness ==
  /\ IsIntersect /\ ~call.assume_unique
  /\ heap[1] # <<>> /\ heap[2] # <<>>
  /\ ret.int1d = <<>>

InputsDupFree == DupFree(heap[1]) /\ DupFree(heap[2])

\* C3 as stated: the values of intersect1d are ascending and duplicate-free
\* for every input and both settings of assume_unique
C3_Original == IsIntersect => Ascending(ret.int1d)

\* C3 as amended: the values of intersect1d are always non-decreasing, and
\* duplicate-free when assume_unique=false or neither input holds a duplicate
C3_Sorted ==
  IsIntersect =>
    /\ NonDecreasing(ret.int1d)
    /\ ((~call.assume_unique \/ InputsDupFree) => Ascending(ret.int1d))

\* assume_unique=true on unsorted duplicate-free inputs sharing two values
C3_Witness ==
  /\ IsIntersect /\ call.assume_unique /\ InputsDupFree
  /\ ~NonDecreasing(heap[1])
  /\ Len(ret.int1d) = 2

\* the indices locate the values: equal lengths, indices in range, and
\* a[idx1[k]] = b[idx2[k]] = values[k]
IndicesLocate ==
  /\ Len(ret.arr1_indices) = Len(ret.int1d)
  /\ Len(ret.arr2_indices) = Len(ret.int1d)
  /\ \A k \in 1..Len(ret.int1d) :
       /\ ret.arr1_indices[k] \in 0..(Len(heap[1]) - 1)
       /\ ret.arr2_indices[k] \in 0..(Len(heap[2]) - 1)
       /\ At(heap[1], ret.arr1_indices[k]) = ret.int1d[k]
       /\ At(heap[2], ret.arr2_indices[k]) = ret.int1d[k]

\* the documented example intersect1d([1,2,3], [3,1,4], return_indices=True)
C4_Example ==
  LET r == intersect1d(<< <<1, 2, 3>>, <<3, 1, 4>> >>, [buf |-> 1, shape |-> <<3>>],
                       [buf |-> 2, shape |-> <<3>>], FALSE, TRUE)
  IN r.int1d = <<1, 3>> /\ r.arr1_indices = <<0, 2>> /\ r.arr2_indices = <<1, 0>>

\* C4 as stated: for every call with return_indices=true the three arrays
\* have equal length and each index pair locates its value in a and in b
C4_Original == (IsIntersect /\ call.return_indices) => IndicesLocate

\* C4 as amended: the same, for calls with assume_unique=false or inputs
\* without duplicates; and the documented example evaluates as documented
C4_Indices ==
  /\ (IsIntersect /\ call.return_indices /\ (~call.assume_unique \/ InputsDupFree))
       => IndicesLocate
  /\ C4_Example

\* indices returned for two shared values out of unsorted inputs
C4_Witness ==
  /\ IsIntersect /\ call.return_indices /\ call.assume_unique /\ InputsDupFree
  /\ ~NonDecreasing(heap[2])
  /\ Len(ret.int1d) = 2
  /\ ret.arr2_indices[1] > ret.arr2_indices[2]

\* C5: with assume_unique=false and return_indices=true, idx1[k] and idx2[k]
\* are the first positions of values[k] in the original flattened a and b
C5_FirstOccurrence ==
  (IsIntersect /\ call.return_indices /\ ~call.assume_unique) =>
    /\ Len(ret.arr1_indices) = Len(ret.int1d)
    /\ Len(ret.arr2_indices) = Len(ret.int1d)
    /\ \A k \in 1..Len(ret.int1d) :
         /\ ret.int1d[k] \in Range(heap[1]) \cap Range(heap[2])
         /\ ret.arr1_indices[k] = FirstIndex(heap[1], ret.int1d[k])
         /\ ret.arr2_indices[k] = FirstIndex(heap[2], ret.int1d[k])

\* a shared value that occurs twice in a, after a smaller value was removed
\* from in front of it by the deduplication
C5_Witness ==
  /\ IsIntersect /\ call.return_indices /\ ~call.assume_unique
  /\ ~DupFree(heap[1]) /\ ~NonDecreasing(heap[1])
  /\ ret.int1d # <<>>
  /\ ret.arr1_indices # ret.pos1

\* C6: union1d returns every distinct value of a or b exactly once, nothing
\* else, ascending
C6_Union ==
  call.op = "union1d" =>
    /\ Range(ret.values) = Range(heap[1]) \cup Range(heap[2])
    /\ Ascending(ret.values)

\* a union of an input with duplicates and an unsorted one
C6_Witness ==
  /\ call.op = "union1d"
  /\ ~DupFree(heap[1]) /\ ~NonDecreasing(heap[2])
  /\ Len(ret.values) = 3

\* the same call with invert=false
Uninverted ==
  IF call.op = "isin"
  THEN isin(heap, Arg(1, call.shape1), Arg(2, call.shape2), FALSE)
  ELSE in1d(heap, Arg(1, call.shape1), Arg(2, call.shape2), FALSE)

\* C7: the invert=true result of isin / in1d has the shape of the
\* invert=false result and is its element-wise negation, empty inputs included
C7_Invert ==
  (IsMember /\ call.invert) =>
    /\ ret.shape = Uninverted.shape
    /\ Len(ret.data) = Len(Uninverted.data)
    /\ \A k \in 1..Len(ret.data) : ret.data[k] = ~Uninverted.data[k]

\* inverted membership against an empty reference
C7_Witness ==
  /\ IsMember /\ call.invert
  /\ Len(heap[1]) = 2 /\ heap[2] = <<>>
  /\ ret.data = <<TRUE, TRUE>>

\* inverted membership with a hit and a miss
C7_MixedWitness ==
  /\ IsMember /\ call.invert
  /\ ret.data = <<TRUE, FALSE>>

AnEmptyInput == heap[1] = <<>> \/ heap[2] = <<>>

\* in1d / isin on a zero-length input: a constant array, no sort, no search
EmptyMembership ==
  (IsMember /\ AnEmptyInput) =>
    /\ ~ret.fault
    /\ Len(ret.data) = Len(heap[1])
    /\ \A k \in 1..Len(ret.data) : ret.data[k] = call.invert
    /\ ret.prims \cap {"sort", "searchsorted"} = {}

EmptyIntersection ==
  /\ ret.int1d = <<>>
  /\ ret.arr1_indices = <<>>
  /\ ret.arr2_indices = <<>>

\* C8 as stated: no fault on zero-length inputs; in1d gives the constant
\* array without sort or searchsorted; intersect1d with an empty input gives
\* empty values and empty indices for either setting of assume_unique
C8_Original ==
  /\ EmptyMembership
  /\ (IsIntersect /\ AnEmptyInput) => (~ret.fault /\ EmptyIntersection)

\* C8 as amended: the same, the intersect1d part for assume_unique=false or
\* inputs without duplicates; no call with an empty input faults
C8_Empty ==
  /\ EmptyMembership
  /\ (IsIntersect /\ AnEmptyInput) => ~ret.fault
  /\ (IsIntersect /\ AnEmptyInput /\ (~call.assume_unique \/ InputsDupFree))
       => EmptyIntersection

\* intersect1d of a non-empty array with an empty one, indices requested
C8_Witness ==
  /\ IsIntersect /\ call.return_indices /\ call.assume_unique
  /\ Len(heap[1]) = 2 /\ heap[2] = <<>>
  /\ InputsDupFree
  /\ EmptyIntersection

\* C9: no call changes the caller's arrays
C9_Frame == [][heap' = heap]_vars

\* after the in-place sort of intersect1d on unsorted inputs
C9_Witness ==
  /\ IsIntersect /\ call.assume_unique /\ ~call.return_indices
  /\ ~NonDecreasing(heap[1]) /\ heap[2] = <<>>
  /\ NonDecreasing(ret.aux) /\ ret.aux # heap[1]

\* the two halves of the concatenated buffer
Half1 == SubSeq(ret.cat, 1, ret.n1)
Half2 == SubSeq(ret.cat, ret.n1 + 1, Len(ret.cat))

\* C10: with return_indices=true and duplicate-free halves, equal neighbours
\* of the sorted buffer come from arr1 then arr2, so the positions taken from
\* perm lie in [0, n1) and, less n1, in [0, n2)
C10_PermOrder ==
  (IsIntersect /\ call.return_indices /\ DupFree(Half1) /\ DupFree(Half2)) =>
    /\ \A k \in 1..(Len(ret.aux) - 1) :
         ret.aux[k] = ret.aux[k + 1] =>
           (ret.perm[k] < ret.n1 /\ ret.perm[k + 1] >= ret.n1)
    /\ \A k \in 1..Len(ret.pos1) : ret.pos1[k] \in 0..(ret.n1 - 1)
    /\ \A k \in 1..Len(ret.pos2) : ret.pos2[k] \in 0..(ret.n2 - 1)

\* two equal pairs in the sorted buffer, interleaved by the sort
C10_Witness ==
  /\ IsIntersect /\ call.return_indices /\ call.assume_unique
  /\ DupFree(Half1) /\ DupFree(Half2)
  /\ ret.n1 = 2 /\ ret.n2 = 2
  /\ Len(ret.pos1) = 2
  /\ ret.perm # <<0, 1, 2, 3>>

====
